---- MODULE Spec2Model ----
(***************************************************************************)
(* Model of the booking handler app.post('/api/book') of src/app.js, of    *)
(* the registration handler app.post('/api/patient'), and of the parts of  *)
(* the FHIR backend they talk to.                                          *)
(*                                                                         *)
(* The handlers are async functions.  A fetch is modelled by two steps:    *)
(* the backend serves the request (the answer is fixed in the backend      *)
(* state of that moment and, for the transaction, the bundle is applied),  *)
(* and later the handler resumes with that answer and runs up to its next  *)
(* fetch or its return.  After a fetch has resolved the handler suspends   *)
(* once more to read the body (res.json(), res.text()); nothing the model  *)
(* tracks changes between the two, so both are the one state "answered,    *)
(* handler not yet resumed", in which every other handler can step.        *)
(* bookingLocks is the in-process Map shared by all handler invocations.   *)
(*                                                                         *)
(* The registration handler awaits outside any try: a rejected fetch or an *)
(* unparsable body leaves its promise rejected with no handler.  What      *)
(* follows depends on the runtime the repository does not pin: the         *)
(* rejection is only reported, or the process ends and with it every       *)
(* handler invocation and the Map.                                         *)
(***************************************************************************)
EXTENDS Integers, Sequences, FiniteSets, TLC

\* ---------------------------------------------------------------- bounds
\* Number of booking requests of one run that the gate check lets pass.
MaxAttempts == 2

\* Number of booking requests rejected with Busy between two changes of the Map.
MaxRejections == 2

\* Number of registration requests of one run whose duplicate check let them
\* pass: those in flight and those that created a Patient.
MaxRegistrations == 1

\* The clients whose booking requests may be in flight at the same time.
Clients == {"c1", "c2"}

\* ------------------------------------------------------- reference values
\* A FHIR reference string "Type/id" is kept as its two parts.
Ref(t, i) == [type |-> t, id |-> i]
NoRef == Ref("", "")

\* Mutant of IsPractitionerRef: the actor type is not checked.
IsPractitionerRefAny(r) == TRUE

\* actorRef.startsWith('Practitioner/')
IsPractitionerRef(r) == r.type = "Practitioner"

\* orgRef.split('/')[1]
RefId(r) == r.id

\* ------------------------------------------------ the backend's fixed data
\* Persons known to the token issuer.
Persons == {"p1", "p2"}

\* Schedule resources: id -> actor[0].reference.
\* sch3 is attached to an Organization instead of a Practitioner.
ScheduleActor ==
    [sch \in {"sch1", "sch2", "sch3", "sch4", "sch5"} |->
        CASE sch = "sch1" -> Ref("Practitioner", "prac1")
          [] sch = "sch2" -> Ref("Practitioner", "prac2")
          [] sch = "sch3" -> Ref("Organization", "org1")
          [] sch = "sch4" -> Ref("Practitioner", "prac3")
          [] sch = "sch5" -> Ref("Practitioner", "prac4")]

ScheduleIds == DOMAIN ScheduleActor

\* PractitionerRole resources. prac3 has none; prac4's has no organization.
PractitionerRoles ==
    { [practitioner |-> Ref("Practitioner", "prac1"), organization |-> Ref("Organization", "org1")],
      [practitioner |-> Ref("Practitioner", "prac2"), organization |-> Ref("Organization", "org2")],
      [practitioner |-> Ref("Practitioner", "prac4"), organization |-> NoRef] }

\* Patient resources at the start: one per (person, organization) registration.
\* p1 and p2 are registered with org1, nobody with org2.
PatientResources ==
    { [id |-> "patA1", person |-> "p1", organization |-> Ref("Organization", "org1")],
      [id |-> "patB1", person |-> "p2", organization |-> Ref("Organization", "org1")] }

\* The ids the backend assigns to the Patient resources it creates.
NewPatientId(n) == CASE n = 1 -> "patN1" [] n = 2 -> "patN2" [] OTHER -> "patN3"

\* Slot resources as created by schedule administration (all free).
\* The slot of sch2 has the id "3"; s5 points at a schedule that does not exist.
SlotSchedule ==
    [s \in {"s1", "s2", "3", "s4", "s5", "s6", "s7"} |->
        CASE s \in {"s1", "s2"} -> "sch1"
          [] s = "3" -> "sch2"
          [] s = "s4" -> "sch3"
          [] s = "s5" -> "schX"
          [] s = "s6" -> "sch4"
          [] s = "s7" -> "sch5"]

SlotIds == DOMAIN SlotSchedule

SlotStart ==
    [s \in SlotIds |-> CASE s = "s1" -> 9 [] s = "s2" -> 10 [] OTHER -> 11]

InitialSlot(s) ==
    [id |-> s, schedule |-> Ref("Schedule", SlotSchedule[s]),
     start |-> SlotStart[s], end |-> SlotStart[s] + 1, status |-> "free"]

NoSlotRes == [id |-> "", schedule |-> NoRef, start |-> 0, end |-> 0, status |-> ""]

\* ------------------------------------------------------ request inputs
\* req.body.slotId is any JSON value.  A value is kept as its type, its string
\* form (what `Slot/${slotId}` puts into the URL) and, for arrays and objects,
\* the identity of the object express.json() built for the request: the Map
\* bookingLocks compares keys by SameValueZero, that is strings and numbers by
\* type and value, arrays and objects by identity.
JsonString(s) == [kind |-> "string", text |-> s, oid |-> 0]
JsonNumber(s) == [kind |-> "number", text |-> s, oid |-> 0]
JsonArray(s, n) == [kind |-> "array", text |-> s, oid |-> n]
JsonObject(n) == [kind |-> "object", text |-> "[object Object]", oid |-> n]

\* slotId absent from the body (or any falsy value).
NoSlotId == JsonString("")

\* String(slotId)
SlotText(v) == v.text

\* The values of slotId of the n-th request: the id of each slot and an id of
\* no slot as strings, 3, ["s1"], {"a": 1}, and none.
SlotIdInputs(n) ==
    {JsonString(s) : s \in SlotIds \cup {"s0"}}
        \cup {NoSlotId, JsonNumber("3"), JsonArray("s1", n), JsonObject(n)}

\* req.cookies.token: absent, one jwt.verify rejects, or one carrying a person id.
NoToken == [kind |-> "none", id |-> ""]
BadToken == [kind |-> "bad", id |-> ""]
TokenInputs == {NoToken, BadToken} \cup {[kind |-> "valid", id |-> p] : p \in Persons}

\* The registrations asked for: p2 with org2, where p2 has no Patient resource yet.
RegistrationInputs == {[person |-> "p2", organizationId |-> "org2"]}

\* What a fetch can come back with: a 2xx response, a non-2xx response, or a
\* rejected promise (network fault, unparsable body).
FetchOutcomes == {"ok", "notok", "throw"}

VARIABLES
    bookingLocks,   \* the keys of the Map bookingLocks
    slots,          \* backend: Slot resources by id
    appts,          \* backend: Appointment resources
    nextId,         \* backend: next Appointment id it assigns
    patients,       \* backend: Patient resources
    regChecked,     \* registration handlers whose duplicate check let them pass, not yet resumed
    regPending,     \* POST Patient requests of registration handlers in flight
    alive,          \* whether the Node.js process runs
    pc,             \* per client: the fetch its handler invocation waits for
    loc,            \* per client: the handler invocation's local variables
    resp,           \* per client: the response sent for its last request
    reads,          \* per client: backend reads issued by its current request
    txs,            \* per client: transactions submitted by its current request
    answer,         \* per client: the backend's answer to its last fetch, "" while not served
    body,           \* per client: the body of that answer, until the handler has read it
    started,        \* number of booking requests so far that were not rejected with Busy
    rejected        \* number of requests rejected with Busy since a key was last set or deleted

vars == <<bookingLocks, slots, appts, nextId, patients, regChecked, regPending,
          alive, pc, loc, resp, reads, txs, answer, body, started, rejected>>
backend == <<slots, appts, nextId>>
registry == <<patients, regChecked, regPending, alive>>
handlers == <<bookingLocks, pc, loc, resp, reads, txs, started, rejected>>

\* ------------------------------------------------------------ the backend
\* GET Slot/<id>: whether the backend holds the resource.
SlotExists(sl, id) == id \in DOMAIN sl

\* GET <scheduleRef>
ScheduleExists(ref) == ref.type = "Schedule" /\ ref.id \in ScheduleIds

\* GET PractitionerRole?practitioner=<actorRef>
SearchRoles(actor) == {r \in PractitionerRoles : r.practitioner = actor}

\* Mutant of SearchPatients: the organization parameter is not applied.
SearchPatientsAnyOrganization(pats, person, organizationId) ==
    {p \in pats : p.person = person}

\* GET Patient?identifier=<person>&organization=Organization/<organizationId>
SearchPatients(pats, person, organizationId) ==
    {p \in pats :
        p.person = person /\ p.organization = Ref("Organization", organizationId)}

\* Mutant of HasParticipant: every Appointment matches the patient parameter.
HasParticipantAny(a, ref) == TRUE

\* An Appointment matches patient=<ref> when ref is one of its participants.
HasParticipant(a, ref) == \E i \in DOMAIN a.participant : a.participant[i].actor = ref

\* Mutant of SearchAppointments: the patient parameter is not applied.
SearchAppointmentsAnyPatient(ap, patient, schedule) ==
    {a \in ap : a.status = "booked" /\ a.supportingInformation = schedule}

\* GET Appointment?patient=<patientRef>&supporting-information=<scheduleRef>&status=booked
SearchAppointments(ap, patient, schedule) ==
    {a \in ap : /\ a.status = "booked"
                /\ HasParticipant(a, patient)
                /\ a.supportingInformation = schedule}

\* One entry of a transaction applied to the backend state st.
ApplyEntry(e, st) ==
    CASE e.method = "PUT" ->
           [st EXCEPT !.slots = [x \in (DOMAIN st.slots) \cup {e.url.id} |->
                                    IF x = e.url.id THEN e.resource ELSE st.slots[x]],
                      !.results = Append(st.results, [status |-> "200", location |-> e.url])]
      [] e.method = "DELETE" ->
           [st EXCEPT !.appts = {a \in st.appts : a.id # e.url.id},
                      !.results = Append(st.results, [status |-> "204", location |-> NoRef])]
      [] e.method = "POST" ->
           [st EXCEPT !.appts = st.appts \cup {[e.resource EXCEPT !.id = st.nextId]},
                      !.nextId = st.nextId + 1,
                      !.results = Append(st.results,
                                    [status |-> "201", location |-> Ref("Appointment", st.nextId)])]

\* The backend's atomic apply: the entries in the order of the list.
RECURSIVE ApplyEntries(_, _)
ApplyEntries(entries, st) ==
    IF entries = <<>> THEN st
    ELSE ApplyEntries(Tail(entries), ApplyEntry(Head(entries), st))

ApplyTransaction(entries, sl, ap, nid) ==
    ApplyEntries(entries, [slots |-> sl, appts |-> ap, nextId |-> nid, results |-> <<>>])

\* ------------------------------------------------------------ the handler
NoLoc ==
    [slotId |-> NoSlotId, personId |-> "", newSlot |-> NoSlotRes, scheduleRef |-> NoRef,
     actorRef |-> NoRef, patientRef |-> NoRef, oldAppointmentRef |-> NoRef,
     organizationId |-> "", oldSlotRef |-> NoRef, entry |-> <<>>, message |-> ""]

NoResp == [status |-> 0, error |-> "", message |-> "", appointmentId |-> 0]

\* The body of an answer: the resource, the bundle of a search, or the entries
\* of a transaction response.
NoBody ==
    [slot |-> NoSlotRes, actor |-> NoRef, roles |-> {}, patients |-> {},
     appts |-> {}, results |-> <<>>]

\* res.status(code).json({ error })
ErrorResp(code, error) ==
    [status |-> code, error |-> error, message |-> "", appointmentId |-> 0]

\* Mutant of OkResp: the identifier of the new reservation is not passed on.
OkRespNoId(message, id) ==
    [status |-> 200, error |-> "", message |-> message, appointmentId |-> 0]

\* res.json({ message, appointmentId })
OkResp(message, id) ==
    [status |-> 200, error |-> "", message |-> message, appointmentId |-> id]

\* Mutant of LockHeld: one lock for all slots.
LockHeldAny(locks, s) == locks # {}

\* bookingLocks.has(slotId): a key of the Map is the same value as slotId.
LockHeld(locks, s) == s \in locks

\* bookingLocks.set(slotId, true)
LockSet(locks, s) == locks \cup {s}

\* Mutant of LockDelete: the delete misses the key.
LockDeleteMissesKey(locks, s) == locks

\* finally { bookingLocks.delete(slotId) }
LockDelete(locks, s) == locks \ {s}

\* { resource: { ...oldSlot, status: 'free' }, request: { method: "PUT", url: oldSlotRef } }
FreeOldSlotEntry(oldSlot, oldSlotRef) ==
    [method |-> "PUT", url |-> oldSlotRef, resource |-> [oldSlot EXCEPT !.status = "free"]]

\* { request: { method: "DELETE", url: oldAppointmentRef } }
DeleteOldEntry(oldAppointmentRef) ==
    [method |-> "DELETE", url |-> oldAppointmentRef, resource |-> NoSlotRes]

\* Mutant of CreateEntry: the new Appointment starts where the slot ends.
CreateEntryStartsAtEnd(l) ==
    [method |-> "POST", url |-> Ref("Appointment", ""),
     resource |-> [id |-> 0,
                   status |-> "booked",
                   slot |-> Ref("Slot", SlotText(l.slotId)),
                   supportingInformation |-> l.scheduleRef,
                   start |-> l.newSlot.end,
                   end |-> l.newSlot.end,
                   participant |-> << [actor |-> l.patientRef, status |-> "accepted"],
                                      [actor |-> l.actorRef, status |-> "accepted"] >>]]

\* The new Appointment, POSTed to "Appointment".
CreateEntry(l) ==
    [method |-> "POST", url |-> Ref("Appointment", ""),
     resource |-> [id |-> 0,
                   status |-> "booked",
                   slot |-> Ref("Slot", SlotText(l.slotId)),
                   supportingInformation |-> l.scheduleRef,
                   start |-> l.newSlot.start,
                   end |-> l.newSlot.end,
                   participant |-> << [actor |-> l.patientRef, status |-> "accepted"],
                                      [actor |-> l.actorRef, status |-> "accepted"] >>]]

\* Mutant of BusyNewSlotEntry: the target slot is written back as it was read.
BusyNewSlotEntryKeepsStatus(l) ==
    [method |-> "PUT", url |-> Ref("Slot", SlotText(l.slotId)), resource |-> l.newSlot]

\* { resource: { ...newSlot, status: "busy" }, request: { method: "PUT", url: `Slot/${slotId}` } }
BusyNewSlotEntry(l) ==
    [method |-> "PUT", url |-> Ref("Slot", SlotText(l.slotId)),
     resource |-> [l.newSlot EXCEPT !.status = "busy"]]

\* Step 9: the operations of the new booking, appended to what step 8 pushed.
NewBookingEntries(l) == <<CreateEntry(l), BusyNewSlotEntry(l)>>

\* txResult.entry.find(e => e.response && e.response.status.startsWith('201'))
Find201(results) ==
    LET idx == {i \in DOMAIN results : results[i].status = "201"}
    IN  IF idx = {} THEN NoRef
        ELSE results[CHOOSE i \in idx : \A j \in idx : i <= j].location

\* Mutant of Finish: the handler returns outside the try block, no finally runs.
FinishOutsideTry(c, r) ==
    /\ pc' = [pc EXCEPT ![c] = "done"]
    /\ resp' = [resp EXCEPT ![c] = r]
    /\ loc' = [loc EXCEPT ![c] = [NoLoc EXCEPT !.slotId = loc[c].slotId]]
    /\ body' = [body EXCEPT ![c] = NoBody]
    /\ UNCHANGED <<bookingLocks, answer, rejected>>

\* The handler returns or throws inside try: the response is sent and the
\* finally block deletes the invocation's own key.
Finish(c, r) ==
    /\ pc' = [pc EXCEPT ![c] = "done"]
    /\ resp' = [resp EXCEPT ![c] = r]
    /\ loc' = [loc EXCEPT ![c] = [NoLoc EXCEPT !.slotId = loc[c].slotId]]
    /\ body' = [body EXCEPT ![c] = NoBody]
    /\ bookingLocks' = LockDelete(bookingLocks, loc[c].slotId)
    /\ rejected' = 0
    /\ UNCHANGED answer

\* The handler issues the next fetch and suspends at it.
Suspend(c, at, l) ==
    /\ pc' = [pc EXCEPT ![c] = at]
    /\ loc' = [loc EXCEPT ![c] = l]
    /\ reads' = [reads EXCEPT ![c] = @ + 1]
    /\ answer' = [answer EXCEPT ![c] = ""]
    /\ body' = [body EXCEPT ![c] = NoBody]
    /\ UNCHANGED <<resp, bookingLocks, rejected>>

\* As Suspend, for the POST of the transaction bundle.
SuspendTx(c, l) ==
    /\ pc' = [pc EXCEPT ![c] = "awaitTx"]
    /\ loc' = [loc EXCEPT ![c] = l]
    /\ txs' = [txs EXCEPT ![c] = @ + 1]
    /\ answer' = [answer EXCEPT ![c] = ""]
    /\ body' = [body EXCEPT ![c] = NoBody]
    /\ UNCHANGED <<resp, bookingLocks, reads, rejected>>

Init ==
    /\ bookingLocks = {}
    /\ slots = [s \in SlotIds |-> InitialSlot(s)]
    /\ appts = {}
    /\ nextId = 1
    /\ patients = PatientResources
    /\ regChecked = [r \in RegistrationInputs |-> 0]
    /\ regPending = [r \in RegistrationInputs |-> 0]
    /\ alive = TRUE
    /\ pc = [c \in Clients |-> "idle"]
    /\ loc = [c \in Clients |-> NoLoc]
    /\ resp = [c \in Clients |-> NoResp]
    /\ reads = [c \in Clients |-> 0]
    /\ txs = [c \in Clients |-> 0]
    /\ answer = [c \in Clients |-> ""]
    /\ body = [c \in Clients |-> NoBody]
    /\ started = 0
    /\ rejected = 0

\* Mutant of Reject: the rejected request empties the Map.
RejectAndClear(c, s) ==
    /\ pc' = [pc EXCEPT ![c] = "done"]
    /\ resp' = [resp EXCEPT ![c] = ErrorResp(409, "Busy")]
    /\ loc' = [loc EXCEPT ![c] = [NoLoc EXCEPT !.slotId = s]]
    /\ rejected' = rejected + 1
    /\ bookingLocks' = {}

\* Lines 533-535: the 409 return, placed before the try block.
Reject(c, s) ==
    /\ pc' = [pc EXCEPT ![c] = "done"]
    /\ resp' = [resp EXCEPT ![c] = ErrorResp(409, "Busy")]
    /\ loc' = [loc EXCEPT ![c] = [NoLoc EXCEPT !.slotId = s]]
    /\ rejected' = rejected + 1
    /\ UNCHANGED bookingLocks

\* Lines 526-551: a request arrives; the handler runs to its first fetch.
StartUpTo(c, max) ==
    /\ alive
    /\ pc[c] = "idle"
    /\ UNCHANGED <<backend, registry, txs, answer, body>>
    /\ \E s \in SlotIdInputs(started + 1), token \in TokenInputs :
        IF s = NoSlotId THEN
            /\ started < max
            /\ started' = started + 1
            /\ pc' = [pc EXCEPT ![c] = "done"]
            /\ resp' = [resp EXCEPT ![c] = ErrorResp(400, "MissingSlotId")]
            /\ loc' = [loc EXCEPT ![c] = [NoLoc EXCEPT !.slotId = s]]
            /\ UNCHANGED <<bookingLocks, reads, rejected>>
        ELSE IF LockHeld(bookingLocks, s) THEN
            /\ rejected < MaxRejections
            /\ Reject(c, s)
            /\ UNCHANGED <<reads, started>>
        ELSE IF token.kind # "valid" THEN
            \* lock set, 401 returned inside try, lock deleted by finally
            /\ started < max
            /\ started' = started + 1
            /\ rejected' = 0
            /\ pc' = [pc EXCEPT ![c] = "done"]
            /\ resp' = [resp EXCEPT ![c] =
                  ErrorResp(401, IF token.kind = "none" THEN "NotLoggedIn"
                                                        ELSE "TokenInvalid")]
            /\ loc' = [loc EXCEPT ![c] = [NoLoc EXCEPT !.slotId = s]]
            /\ bookingLocks' = LockDelete(LockSet(bookingLocks, s), s)
            /\ UNCHANGED reads
        ELSE
            /\ started < max
            /\ started' = started + 1
            /\ rejected' = 0
            /\ bookingLocks' = LockSet(bookingLocks, s)
            /\ pc' = [pc EXCEPT ![c] = "awaitSlot"]
            /\ loc' = [loc EXCEPT ![c] = [NoLoc EXCEPT !.slotId = s, !.personId = token.id]]
            /\ reads' = [reads EXCEPT ![c] = 1]
            /\ UNCHANGED resp

Start(c) == StartUpTo(c, MaxAttempts)

\* The response has been delivered; the client may send its next request.
Close(c) ==
    /\ pc[c] = "done"
    /\ pc' = [pc EXCEPT ![c] = "idle"]
    /\ loc' = [loc EXCEPT ![c] = NoLoc]
    /\ resp' = [resp EXCEPT ![c] = NoResp]
    /\ reads' = [reads EXCEPT ![c] = 0]
    /\ txs' = [txs EXCEPT ![c] = 0]
    /\ answer' = [answer EXCEPT ![c] = ""]
    /\ UNCHANGED <<backend, registry, bookingLocks, started, rejected, body>>

\* ------------------------------------------------- the backend serves a fetch
\* The backend answers the fetch c's handler waits for with outcome o and body b.
Answered(c, o, b) ==
    /\ answer[c] = ""
    /\ answer' = [answer EXCEPT ![c] = o]
    /\ body' = [body EXCEPT ![c] = b]
    /\ UNCHANGED <<handlers, registry>>

\* GET Slot/<slotId> (line 551) is served.
ServeSlot(c) ==
    /\ pc[c] = "awaitSlot"
    /\ UNCHANGED backend
    /\ \E o \in FetchOutcomes :
        /\ o = "ok" => SlotExists(slots, SlotText(loc[c].slotId))
        /\ Answered(c, o, IF o = "ok"
                          THEN [NoBody EXCEPT !.slot = slots[SlotText(loc[c].slotId)]]
                          ELSE NoBody)

\* GET <scheduleRef> (line 557) is served.
ServeSchedule(c) ==
    /\ pc[c] = "awaitSchedule"
    /\ UNCHANGED backend
    /\ \E o \in FetchOutcomes :
        /\ o = "ok" => ScheduleExists(loc[c].scheduleRef)
        /\ Answered(c, o, IF o = "ok"
                          THEN [NoBody EXCEPT !.actor = ScheduleActor[loc[c].scheduleRef.id]]
                          ELSE NoBody)

\* GET PractitionerRole?practitioner=.. (line 569) is served.
ServeRole(c) ==
    /\ pc[c] = "awaitRole"
    /\ UNCHANGED backend
    /\ \E o \in FetchOutcomes :
        Answered(c, o, IF o = "ok"
                       THEN [NoBody EXCEPT !.roles = SearchRoles(loc[c].actorRef)]
                       ELSE NoBody)

\* GET Patient?identifier=..&organization=.. (line 586) is served.
ServePatient(c) ==
    /\ pc[c] = "awaitPatient"
    /\ UNCHANGED backend
    /\ \E o \in FetchOutcomes :
        Answered(c, o, IF o = "ok"
                       THEN [NoBody EXCEPT !.patients =
                                SearchPatients(patients, loc[c].personId, loc[c].organizationId)]
                       ELSE NoBody)

\* GET Appointment?patient=..&supporting-information=..&status=booked (line 597)
\* is served.  A non-2xx answer carries an error body without a total.
ServeExisting(c) ==
    /\ pc[c] = "awaitExisting"
    /\ UNCHANGED backend
    /\ \E o \in FetchOutcomes :
        Answered(c, o, IF o = "ok"
                       THEN [NoBody EXCEPT !.appts =
                                SearchAppointments(appts, loc[c].patientRef, loc[c].scheduleRef)]
                       ELSE NoBody)

\* GET <oldSlotRef> (line 617) is served.
ServeOldSlot(c) ==
    /\ pc[c] = "awaitOldSlot"
    /\ UNCHANGED backend
    /\ \E o \in FetchOutcomes :
        /\ o = "ok" => SlotExists(slots, loc[c].oldSlotRef.id)
        /\ Answered(c, o, IF o = "ok"
                          THEN [NoBody EXCEPT !.slot = slots[loc[c].oldSlotRef.id]]
                          ELSE NoBody)

\* What the POST of the bundle can come back with: the three fetch outcomes
\* (the bundle not applied when rejected with a non-2xx status or when the
\* request is lost), a 2xx answer whose entries carry no 201, and a fault after
\* the backend applied the bundle (connection reset, unparsable body).
TxOutcomes == FetchOutcomes \cup {"okNoCreated", "throwCommitted"}

TxApplied(o) == o \in {"ok", "okNoCreated", "throwCommitted"}

\* POST of the transaction bundle (line 655) is served: the backend applies the
\* bundle while the handler is suspended.
ServeTx(c) ==
    /\ pc[c] = "awaitTx"
    /\ \E o \in TxOutcomes :
        IF TxApplied(o)
        THEN LET st == ApplyTransaction(loc[c].entry, slots, appts, nextId)
             IN  /\ slots' = st.slots
                 /\ appts' = st.appts
                 /\ nextId' = st.nextId
                 /\ Answered(c, o, IF o = "ok" THEN [NoBody EXCEPT !.results = st.results]
                                               ELSE NoBody)
        ELSE /\ UNCHANGED backend
             /\ Answered(c, o, NoBody)

\* The backend serves the fetch c's handler waits for.
Serve(c) ==
    \/ ServeSlot(c)
    \/ ServeSchedule(c)
    \/ ServeRole(c)
    \/ ServePatient(c)
    \/ ServeExisting(c)
    \/ ServeOldSlot(c)
    \/ ServeTx(c)

\* ------------------------------------------------- the handler resumes
\* catch (err) { res.status(500).json({ error: err.message }) } for a fetch that rejects
Threw(c) == Finish(c, ErrorResp(500, "FetchThrew"))

\* Lines 551-557: the handler resumes with the answer to GET Slot/<slotId>.
FetchSlot(c) ==
    /\ pc[c] = "awaitSlot" /\ answer[c] # ""
    /\ UNCHANGED <<backend, registry, started>>
    /\ IF answer[c] = "throw" THEN Threw(c) /\ UNCHANGED <<reads, txs>>
       ELSE IF answer[c] = "notok" THEN
            Finish(c, ErrorResp(404, "SlotNotFound")) /\ UNCHANGED <<reads, txs>>
       ELSE LET newSlot == body[c].slot
            IN  /\ Suspend(c, "awaitSchedule",
                        [loc[c] EXCEPT !.newSlot = newSlot,
                                       !.scheduleRef = newSlot.schedule])
                /\ UNCHANGED txs

\* Lines 557-569: the answer to GET <scheduleRef>, the actor type check.
FetchSchedule(c) ==
    /\ pc[c] = "awaitSchedule" /\ answer[c] # ""
    /\ UNCHANGED <<backend, registry, started>>
    /\ IF answer[c] = "throw" THEN Threw(c) /\ UNCHANGED <<reads, txs>>
       ELSE IF answer[c] = "notok" THEN
            Finish(c, ErrorResp(404, "ScheduleNotFound")) /\ UNCHANGED <<reads, txs>>
       ELSE LET actorRef == body[c].actor
            IN  IF ~IsPractitionerRef(actorRef) THEN
                    Finish(c, ErrorResp(500, "UnsupportedActorType"))
                    /\ UNCHANGED <<reads, txs>>
                ELSE
                    /\ Suspend(c, "awaitRole", [loc[c] EXCEPT !.actorRef = actorRef])
                    /\ UNCHANGED txs

\* Lines 569-586: the answer to the PractitionerRole search, the organization.
FetchRole(c) ==
    /\ pc[c] = "awaitRole" /\ answer[c] # ""
    /\ UNCHANGED <<backend, registry, started>>
    /\ IF answer[c] = "throw" THEN Threw(c) /\ UNCHANGED <<reads, txs>>
       ELSE IF answer[c] = "notok" THEN
           Finish(c, ErrorResp(500, "RoleFetchFailed")) /\ UNCHANGED <<reads, txs>>
       ELSE LET prRoleBundle == body[c].roles
            IN  IF prRoleBundle = {} THEN
                    Finish(c, ErrorResp(500, "RoleNotFound")) /\ UNCHANGED <<reads, txs>>
                ELSE \E first \in prRoleBundle :
                    LET orgRef == first.organization
                    IN  IF orgRef = NoRef THEN
                            Finish(c, ErrorResp(500, "OrganizationMissing"))
                            /\ UNCHANGED <<reads, txs>>
                        ELSE
                            /\ Suspend(c, "awaitPatient",
                                   [loc[c] EXCEPT !.organizationId = RefId(orgRef)])
                            /\ UNCHANGED txs

\* Lines 586-597: the answer to the Patient search.
FetchPatient(c) ==
    /\ pc[c] = "awaitPatient" /\ answer[c] # ""
    /\ UNCHANGED <<backend, registry, started>>
    /\ IF answer[c] = "throw" THEN Threw(c) /\ UNCHANGED <<reads, txs>>
       ELSE IF answer[c] = "notok" THEN
           Finish(c, ErrorResp(500, "PatientSearchFailed")) /\ UNCHANGED <<reads, txs>>
       ELSE LET pSearchBundle == body[c].patients
            IN  IF pSearchBundle = {} THEN
                    Finish(c, ErrorResp(404, "PatientNotRegistered"))
                    /\ UNCHANGED <<reads, txs>>
                ELSE \E first \in pSearchBundle :
                    /\ Suspend(c, "awaitExisting",
                           [loc[c] EXCEPT !.patientRef = Ref("Patient", first.id)])
                    /\ UNCHANGED txs

\* Lines 597-617 and 631-659: the answer to the existing-appointment search.
\* The response's ok flag is not looked at: a non-2xx answer has no total.
FetchExisting(c) ==
    /\ pc[c] = "awaitExisting" /\ answer[c] # ""
    /\ UNCHANGED <<backend, registry, started>>
    /\ IF answer[c] = "throw" THEN Threw(c) /\ UNCHANGED <<reads, txs>>
       ELSE LET existingApptBundle == body[c].appts
            IN  IF existingApptBundle # {} THEN
                    \E oldAppointment \in existingApptBundle :
                        /\ Suspend(c, "awaitOldSlot",
                               [loc[c] EXCEPT
                                   !.message = "updated",
                                   !.oldAppointmentRef = Ref("Appointment", oldAppointment.id),
                                   !.oldSlotRef = oldAppointment.slot])
                        /\ UNCHANGED txs
                ELSE
                    /\ SuspendTx(c, [loc[c] EXCEPT !.message = "booked",
                                                   !.entry = NewBookingEntries(loc[c])])

\* Mutant of FetchOldSlot: the operations on the prior reservation are pushed
\* after those of the new booking.
FetchOldSlotFreesLast(c) ==
    /\ pc[c] = "awaitOldSlot" /\ answer[c] # ""
    /\ UNCHANGED <<backend, registry, started>>
    /\ IF answer[c] = "throw" THEN Threw(c) /\ UNCHANGED <<reads, txs>>
       ELSE LET freeOld == IF answer[c] = "ok"
                           THEN <<FreeOldSlotEntry(body[c].slot, loc[c].oldSlotRef)>>
                           ELSE <<>>
            IN  SuspendTx(c, [loc[c] EXCEPT !.entry =
                    NewBookingEntries(loc[c])
                        \o <<DeleteOldEntry(loc[c].oldAppointmentRef)>> \o freeOld])

\* Lines 617-659: the answer to GET <oldSlotRef>; the bundle is completed and posted.
FetchOldSlot(c) ==
    /\ pc[c] = "awaitOldSlot" /\ answer[c] # ""
    /\ UNCHANGED <<backend, registry, started>>
    /\ IF answer[c] = "throw" THEN Threw(c) /\ UNCHANGED <<reads, txs>>
       ELSE LET freeOld == IF answer[c] = "ok"
                           THEN <<FreeOldSlotEntry(body[c].slot, loc[c].oldSlotRef)>>
                           ELSE <<>>
            IN  SuspendTx(c, [loc[c] EXCEPT !.entry =
                    freeOld \o <<DeleteOldEntry(loc[c].oldAppointmentRef)>>
                            \o NewBookingEntries(loc[c])])

\* Mutant of OnTxRejected: the bundle is posted again.
OnTxRejectedRetry(c) ==
    /\ txs' = [txs EXCEPT ![c] = @ + 1]
    /\ answer' = [answer EXCEPT ![c] = ""]
    /\ UNCHANGED <<pc, loc, resp, bookingLocks, reads, body, rejected>>

\* Lines 661-665: the backend rejected the bundle; the handler throws.
OnTxRejected(c) ==
    /\ Finish(c, ErrorResp(500, "BookingFailed"))
    /\ UNCHANGED <<reads, txs>>

\* Lines 661-679: the handler resumes with the answer to the POST of the bundle.
TxPost(c) ==
    /\ alive
    /\ pc[c] = "awaitTx" /\ answer[c] # ""
    /\ UNCHANGED <<backend, registry, started>>
    /\ IF answer[c] \in {"throw", "throwCommitted"} THEN Threw(c) /\ UNCHANGED <<reads, txs>>
       ELSE IF answer[c] = "notok" THEN OnTxRejected(c)
       ELSE LET txResult == body[c].results
                newAppointmentEntry == Find201(txResult)
            IN  /\ UNCHANGED <<reads, txs>>
                /\ IF newAppointmentEntry.type = ""
                   THEN Finish(c, ErrorResp(500, "InvariantViolation"))
                   ELSE Finish(c, OkResp(loc[c].message, RefId(newAppointmentEntry)))

\* The handler of c resumes with the answer to the fetch it waits for.
Resume(c) ==
    \/ FetchSlot(c)
    \/ FetchSchedule(c)
    \/ FetchRole(c)
    \/ FetchPatient(c)
    \/ FetchExisting(c)
    \/ FetchOldSlot(c)
    \/ TxPost(c)

\* ------------------------------------------- app.post('/api/patient')
\* The Patient resources registration has created so far.
Created(pats) == pats \ PatientResources

\* Number of registration handlers counted by f.
RECURSIVE CountOver(_, _)
CountOver(f, S) ==
    IF S = {} THEN 0
    ELSE LET r == CHOOSE x \in S : TRUE IN f[r] + CountOver(f, S \ {r})

\* The registration requests past their duplicate check and not yet answered.
RegInFlight ==
    CountOver(regChecked, RegistrationInputs) + CountOver(regPending, RegistrationInputs)

\* What the duplicate check can come back with, a rejected fetch apart.
CheckOutcomes == {"ok", "notok"}

\* What the POST of the Patient can come back with, a rejected fetch apart.
CreateOutcomes == {"ok", "notok"}

\* Lines 357-371: a registration request with a valid token and both
\* parameters has issued its duplicate check and the backend answers it from
\* the Patient resources it holds now; the handler stays suspended.  A 2xx
\* answer that holds a Patient will end the request with 409 and no further
\* effect; a 2xx answer with total 0 and a non-2xx answer (its body has no
\* total, the ok flag is not looked at) will let the handler go on.
RegisterCheckWith(outcomes) ==
    /\ alive
    /\ UNCHANGED <<backend, patients, regPending, alive, handlers, answer, body>>
    /\ \E r \in RegistrationInputs, o \in outcomes :
        LET chk == IF o = "ok" THEN SearchPatients(patients, r.person, r.organizationId)
                               ELSE {}
        IN  IF chk # {}
            THEN UNCHANGED regChecked
            ELSE /\ Cardinality(Created(patients)) + RegInFlight < MaxRegistrations
                 /\ regChecked' = [regChecked EXCEPT ![r] = @ + 1]

RegisterCheck == RegisterCheckWith(CheckOutcomes)

\* Lines 371-387: a handler whose duplicate check let it pass resumes and
\* issues the POST of the Patient, whatever the backend holds by now.
RegisterPost ==
    /\ alive
    /\ UNCHANGED <<backend, patients, alive, handlers, answer, body>>
    /\ \E r \in RegistrationInputs :
        /\ regChecked[r] > 0
        /\ regChecked' = [regChecked EXCEPT ![r] = @ - 1]
        /\ regPending' = [regPending EXCEPT ![r] = @ + 1]

\* Lines 383-391: the POST of a Patient is served: the backend creates the
\* resource or answers non-2xx.  The handler, when it resumes, answers 200 or
\* the backend's status with no further effect.
RegisterCreateWith(outcomes) ==
    /\ UNCHANGED <<backend, regChecked, alive, handlers, answer, body>>
    /\ \E r \in RegistrationInputs, o \in outcomes :
        /\ regPending[r] > 0
        /\ regPending' = [regPending EXCEPT ![r] = @ - 1]
        /\ IF o = "ok"
           THEN patients' = patients \cup
                    {[id |-> NewPatientId(Cardinality(Created(patients)) + 1),
                      person |-> r.person,
                      organization |-> Ref("Organization", r.organizationId)]}
           ELSE UNCHANGED patients

RegisterCreate == RegisterCreateWith(CreateOutcomes)

\* c's bundle has been sent and not yet served.
TxOnTheWay(c) == pc[c] = "awaitTx" /\ answer[c] = ""

\* The process ends: every handler invocation and the Map are gone, requests
\* in flight get no response; requests already sent to the backend are still
\* served by it.
ProcessExit ==
    LET gone(c) == pc[c] # "done" /\ ~TxOnTheWay(c)
    IN  /\ alive' = FALSE
        /\ bookingLocks' = {}
        /\ pc' = [c \in Clients |-> IF gone(c) THEN "idle" ELSE pc[c]]
        /\ loc' = [c \in Clients |-> IF gone(c) THEN NoLoc ELSE loc[c]]
        /\ reads' = [c \in Clients |-> IF gone(c) THEN 0 ELSE reads[c]]
        /\ txs' = [c \in Clients |-> IF gone(c) THEN 0 ELSE txs[c]]
        /\ answer' = [c \in Clients |-> IF gone(c) THEN "" ELSE answer[c]]
        /\ body' = [c \in Clients |-> IF gone(c) THEN NoBody ELSE body[c]]
        /\ regChecked' = [r \in RegistrationInputs |-> 0]
        /\ rejected' = 0
        /\ UNCHANGED <<backend, patients, regPending, resp, started>>

\* Lines 371, 383-390 are outside any try.  A registration handler resumes
\* from a fetch that was rejected or from a body that cannot be read (the
\* duplicate check, the POST of the Patient whether or not the backend has
\* created the resource): its promise is rejected and nothing handles it.
\* Until then such a request has changed nothing but what RegisterCreate
\* records.  The rejection is only reported and the request stays unanswered,
\* which changes nothing, or the process ends.
RegisterFault ==
    /\ alive
    /\ ProcessExit

Register == RegisterCheck \/ RegisterPost \/ RegisterCreate \/ RegisterFault

Next ==
    \/ \E c \in Clients : Start(c) \/ Close(c) \/ Serve(c) \/ Resume(c)
    \/ Register

Spec == Init /\ [][Next]_vars

\* The backend answers every call, with 2xx unless the resource asked for is missing.
ReliableAnswer(c) ==
    \/ answer'[c] = "ok"
    \/ /\ answer'[c] = "notok"
       /\ \/ pc[c] = "awaitSlot" /\ ~SlotExists(slots, SlotText(loc[c].slotId))
          \/ pc[c] = "awaitSchedule" /\ ~ScheduleExists(loc[c].scheduleRef)

NextReliable ==
    \/ \E c \in Clients :
        \/ Start(c)
        \/ Close(c)
        \/ ServeSlot(c) /\ ReliableAnswer(c)
        \/ ServeSchedule(c) /\ ReliableAnswer(c)
        \/ ServeRole(c) /\ ReliableAnswer(c)
        \/ ServePatient(c) /\ ReliableAnswer(c)
        \/ ServeExisting(c) /\ ReliableAnswer(c)
        \/ ServeOldSlot(c) /\ ReliableAnswer(c)
        \/ ServeTx(c) /\ ReliableAnswer(c)
        \/ Resume(c)
    \/ RegisterCheckWith({"ok"})
    \/ RegisterPost
    \/ RegisterCreateWith({"ok"})

\* The runs of Spec in which no backend call fails.
ReliableSpec == Init /\ [][NextReliable]_vars

\* Bound on the booking requests of a run of FairSpec.
MaxAttemptsLive == 2

\* Bound on the booking handlers in flight at the same time in a run of FairSpec.
MaxInFlightLive == 1

\* Lines 526-551, under the bounds of FairSpec.
StartLive(c) ==
    /\ Cardinality({d \in Clients : pc[d] \notin {"idle", "done"}}) < MaxInFlightLive
    /\ StartUpTo(c, MaxAttemptsLive)

\* The steps of the booking handler and of the backend serving it.
NextLive ==
    \E c \in Clients : StartLive(c) \/ Close(c) \/ Serve(c) \/ Resume(c)

\* The runs of the booking handler in which every backend call eventually
\* returns: a fetch in flight is eventually served, and a handler whose fetch
\* has been served is eventually resumed.
FairSpec ==
    /\ Init /\ [][NextLive]_vars
    /\ \A c \in Clients : WF_vars(Serve(c) \/ Resume(c))

\* ------------------------------------------------------------ properties
InFlight(c) == alive /\ pc[c] \notin {"idle", "done"}

Booked(a) == a.status = "booked"

\* The patient participant of an Appointment the handler created.
PatientOf(a) == a.participant[1].actor

BookedOn(ap, s) == {a \in ap : Booked(a) /\ a.slot = Ref("Slot", s)}

\* The id of the Slot resource c's attempt works on: `Slot/${slotId}`.
Target(c) == SlotText(loc[c].slotId)

\* c's handler is invoked in this step.
StartStep(c) == pc[c] = "idle" /\ pc'[c] # "idle"

\* c's handler, having acquired the gate and suspended, finishes in this step.
FinishStep(c) == InFlight(c) /\ pc'[c] = "done"

\* The backend serves the transaction of c's attempt in this step.
TxServed(c) == pc[c] = "awaitTx" /\ answer[c] = "" /\ answer'[c] # ""

\* The backend applies the transaction of c's attempt in this step.
Commit(c) == TxServed(c) /\ TxApplied(answer'[c])

\* C1: at most one booked reservation per (patient identity, schedule) pair,
\* in every reachable state.
C1_OneBookedPerPatientSchedule ==
    \A a, b \in appts :
        (/\ Booked(a) /\ Booked(b)
         /\ PatientOf(a) = PatientOf(b)
         /\ a.supportingInformation = b.supportingInformation) => a = b

\* C2: a slot is busy if and only if some booked reservation references it.
C2_BusyIffBooked ==
    \A s \in DOMAIN slots : slots[s].status = "busy" <=> BookedOn(appts, s) # {}

\* C3: no slot is referenced by two booked reservations at once.
C3_NoSlotDoubleBooked ==
    \A s \in DOMAIN slots : Cardinality(BookedOn(appts, s)) <= 1

\* C4: for every slot id at most one attempt is between gate acquisition and
\* gate release.
C4_GateMutualExclusion ==
    \A c, d \in Clients :
        (c # d /\ InFlight(c) /\ InFlight(d)) => Target(c) # Target(d)

\* C5: an attempt arriving while another attempt on the same slot id is in flight
\* is rejected with Busy in its first step, without any backend read or
\* transaction and without touching the gate or the attempt in flight; an
\* attempt is rejected with Busy only then; a finished attempt never resumes.
C5_BusyRejection ==
    /\ [][\A c \in Clients :
            LET overlaps == \E d \in Clients \ {c} :
                               InFlight(d) /\ Target(d) = SlotText(loc'[c].slotId)
            IN  /\ StartStep(c) =>
                     /\ overlaps <=> (resp'[c] = ErrorResp(409, "Busy"))
                     /\ overlaps =>
                           /\ pc'[c] = "done"
                           /\ reads'[c] = 0 /\ txs'[c] = 0
                           /\ bookingLocks' = bookingLocks
                           /\ backend' = backend
                           /\ \A d \in Clients \ {c} : pc'[d] = pc[d] /\ loc'[d] = loc[d]
                /\ pc[c] = "done" => pc'[c] \in {"done", "idle"}]_vars
    /\ [](\A c \in Clients :
            resp[c].status = 409 => pc[c] = "done" /\ reads[c] = 0 /\ txs[c] = 0)

\* C6: every step in which an attempt that acquired the gate finishes leaves
\* its key out of the gate, and the gate holds no entry without an attempt
\* in flight on it; when every backend call returns, every attempt in flight
\* finishes, with its gate entry cleared.
C6_GateReleased ==
    /\ [][\A c \in Clients :
            /\ FinishStep(c) => loc[c].slotId \notin bookingLocks'
            /\ (StartStep(c) /\ resp'[c].status = 401) =>
                  loc'[c].slotId \notin bookingLocks']_vars
    /\ [](\A s \in bookingLocks : \E c \in Clients : InFlight(c) /\ loc[c].slotId = s)
    /\ \A c \in Clients :
          InFlight(c) ~> (pc[c] = "done" /\ loc[c].slotId \notin bookingLocks)

\* C6's case: an attempt that held the gate of a slot has finished and a later
\* attempt on the same slot id has been admitted.
C6_Witness ==
    \E c, d \in Clients :
        /\ pc[c] = "done" /\ reads[c] >= 1
        /\ InFlight(d) /\ loc[d].slotId = loc[c].slotId

ResolutionErrors ==
    {"SlotNotFound", "ScheduleNotFound", "UnsupportedActorType",
     "RoleNotFound", "OrganizationMissing", "PatientNotRegistered"}

\* C7: an attempt that ends with a resolution failure has submitted no
\* transaction, its finishing step leaves slots and reservations as they were,
\* and its gate entry is released.
C7_ResolutionFailure ==
    [][\A c \in Clients :
          (FinishStep(c) /\ resp'[c].error \in ResolutionErrors) =>
              /\ txs[c] = 0 /\ txs'[c] = 0
              /\ pc[c] # "awaitTx"
              /\ backend' = backend
              /\ loc[c].slotId \notin bookingLocks']_vars

\* C7's case: an attempt failed at the last step of the chain.
C7_Witness ==
    \E c \in Clients :
        pc[c] = "done" /\ resp[c] = ErrorResp(404, "PatientNotRegistered") /\ reads[c] = 4

\* The new reservation of the attempt of c, in the state after its transaction.
CreatedBy(c) ==
    {a \in appts' \ appts :
        /\ Booked(a) /\ a.id = nextId
        /\ a.slot = Ref("Slot", Target(c))
        /\ PatientOf(a) = loc[c].patientRef}

\* C8: slots and reservations change only in the one step in which the backend
\* applies an attempt's transaction, posted once, and that step has the effect
\* of the whole operation list: the reservation is created and the target slot
\* busied, and when a prior reservation was found it is deleted and its slot
\* freed in that same step, so that no step leaves part of a booking.
C8_AllOrNothing ==
    /\ [][backend' # backend =>
            \E c \in Clients :
                LET l == loc[c]
                    had == l.oldAppointmentRef.type = "Appointment"
                    freed == had /\ l.oldSlotRef.id # Target(c)
                IN  /\ Commit(c) /\ txs[c] = 1
                    /\ Cardinality(CreatedBy(c)) = 1
                    /\ appts' \ appts = CreatedBy(c)
                    /\ slots'[Target(c)].status = "busy"
                    /\ had => \A a \in appts' : a.id # l.oldAppointmentRef.id
                    /\ \A a \in appts \ appts' : had /\ a.id = l.oldAppointmentRef.id
                    /\ freed => slots'[l.oldSlotRef.id].status = "free"
                    /\ \A s \in DOMAIN slots :
                          (s # Target(c) /\ ~(freed /\ s = l.oldSlotRef.id)) =>
                              slots'[s] = slots[s]
                    /\ DOMAIN slots' = DOMAIN slots
                    /\ nextId' = nextId + 1]_vars
    /\ [](\A c \in Clients : txs[c] <= 1)

\* C9: when the backend rejects the transaction it leaves slots and
\* reservations unchanged, and the next step of the attempt's handler ends the
\* attempt with 500 BookingFailed, having submitted the transaction once, with
\* its gate entry released.
C9_BookingFailed ==
    /\ [][\A c \in Clients :
            (/\ pc[c] = "awaitTx" /\ answer[c] = "notok" /\ alive'
             /\ (pc'[c] # pc[c] \/ txs'[c] # txs[c] \/ answer'[c] # answer[c])) =>
                /\ pc'[c] = "done"
                /\ resp'[c] = ErrorResp(500, "BookingFailed")
                /\ txs[c] = 1 /\ txs'[c] = 1
                /\ backend' = backend
                /\ loc[c].slotId \notin bookingLocks']_vars
    /\ [][\A c \in Clients :
            (TxServed(c) /\ answer'[c] = "notok") => backend' = backend]_vars

\* C9's case: a transaction was rejected.
C9_Witness ==
    \E c \in Clients :
        /\ pc[c] = "done" /\ answer[c] = "notok" /\ txs[c] = 1
        /\ resp[c].error = "BookingFailed"

\* C10: when P holds the booked reservation R1 on S1 and the backend applies
\* P's transaction booking S2 of the same schedule, R1 is gone, S1 is free, the
\* new reservation is booked on S2, S2 is busy and it is P's only booked
\* reservation on the schedule.
C10_Supersession ==
    [][\A c \in Clients :
          LET l == loc[c]
              held == SearchAppointments(appts, l.patientRef, l.scheduleRef)
          IN  (/\ Commit(c) /\ answer'[c] = "ok"
               /\ Cardinality(held) = 1
               /\ \A r1 \in held : /\ r1.slot # Ref("Slot", Target(c))
                                    /\ l.oldAppointmentRef = Ref("Appointment", r1.id)) =>
                  \A r1 \in held :
                      /\ r1 \notin appts'
                      /\ slots'[r1.slot.id].status = "free"
                      /\ slots'[Target(c)].status = "busy"
                      /\ \E r2 \in appts' :
                            /\ r2.id = nextId
                            /\ r2.slot = Ref("Slot", Target(c))
                            /\ SearchAppointments(appts', l.patientRef, l.scheduleRef) = {r2}]_vars

\* The step in which c's handler resumes with the answer to its transaction.
TxStep(c) == pc[c] = "awaitTx" /\ pc'[c] = "done"

\* C11: when the target slot is free and the patient has no booked reservation
\* on the slot's schedule, the transaction of a booking that succeeds creates
\* exactly one reservation, booked and bound to the target slot, sets the
\* target slot to busy and changes no other slot or reservation; the attempt
\* then reports success with the identifier of that reservation.
C11_FreshBooking ==
    [][\A c \in Clients :
          LET l == loc[c]
          IN  /\ (/\ Commit(c) /\ answer'[c] = "ok"
                  /\ slots[Target(c)].status = "free"
                  /\ SearchAppointments(appts, l.patientRef, l.scheduleRef) = {}) =>
                     /\ \E r1 \in appts' \ appts :
                           /\ appts' = appts \cup {r1}
                           /\ Booked(r1)
                           /\ r1.slot = Ref("Slot", Target(c))
                           /\ r1.supportingInformation = l.scheduleRef
                           /\ PatientOf(r1) = l.patientRef
                           /\ Find201(body'[c].results) = Ref("Appointment", r1.id)
                     /\ slots' = [slots EXCEPT ![Target(c)].status = "busy"]
              /\ (TxStep(c) /\ answer[c] = "ok") =>
                     resp'[c] = OkResp(l.message, RefId(Find201(body[c].results)))]_vars

\* C11's case: the first booking of a run succeeded as a fresh booking.
C11_Witness ==
    \E c \in Clients :
        /\ pc[c] = "done" /\ resp[c].status = 200 /\ resp[c].message = "booked"
        /\ Cardinality(appts) = 1
        /\ \A a \in appts : a.id = resp[c].appointmentId /\ a.slot = Ref("Slot", Target(c))
        /\ \A s \in DOMAIN slots : slots[s].status = "busy" <=> s = Target(c)

\* C12: in the state produced by the transaction of an attempt that reports
\* success, the patient has exactly one booked reservation on the schedule:
\* the one the attempt created, bound to the requested slot.
C12_ExactlyOneAfterSuccess ==
    [][\A c \in Clients :
          LET l == loc[c]
          IN  (Commit(c) /\ answer'[c] = "ok") =>
                  \E r \in appts' \ appts :
                      /\ r.id = nextId
                      /\ r.slot = Ref("Slot", Target(c))
                      /\ SearchAppointments(appts', l.patientRef, l.scheduleRef) = {r}]_vars

\* C13: success is reported only when the transaction's results carry a 201
\* entry, and the identifier returned is the one of that entry, which is that
\* of the reservation this attempt's transaction created; a 2xx answer without
\* a 201 entry ends the attempt with 500 InvariantViolation.
C13_SuccessNeedsCreation ==
    /\ [][\A c \in Clients :
            LET l == loc[c]
            IN  /\ (InFlight(c) /\ resp'[c].status = 200) =>
                      /\ TxStep(c) /\ answer[c] = "ok"
                      /\ Find201(body[c].results) # NoRef
                      /\ resp'[c].appointmentId = RefId(Find201(body[c].results))
                /\ (Commit(c) /\ answer'[c] = "ok") =>
                      /\ Find201(body'[c].results) = Ref("Appointment", nextId)
                      /\ [CreateEntry(l).resource EXCEPT !.id = nextId] \in appts' \ appts
                      /\ \A a \in appts : a.id # nextId
                /\ (pc[c] = "awaitTx" /\ answer[c] # "" /\ pc'[c] = pc[c]) =>
                      answer'[c] = answer[c] /\ body'[c] = body[c]
                /\ (TxStep(c) /\ answer[c] = "okNoCreated") =>
                      resp'[c] = ErrorResp(500, "InvariantViolation")]_vars
    /\ [](\A c \in Clients : resp[c].status = 200 => answer[c] = "ok" /\ txs[c] = 1)

\* C13's case: one attempt was answered 2xx without a creation result, another
\* one reported success with the identifier of a reservation in the backend.
C13_Witness ==
    \E c, d \in Clients :
        /\ pc[c] = "done" /\ answer[c] = "okNoCreated"
        /\ resp[c] = ErrorResp(500, "InvariantViolation")
        /\ pc[d] = "done" /\ resp[d].status = 200
        /\ \E a \in appts : a.id = resp[d].appointmentId

\* The not-found outcomes of the resolution chain.
NotFoundErrors ==
    {"SlotNotFound", "ScheduleNotFound", "RoleNotFound", "PatientNotRegistered"}

\* C14: a missing slot id and every not-found outcome of the resolution chain
\* are answered with a 4xx status, a rejected transaction and a missing
\* creation result with a 5xx status, and no failure is answered as success;
\* the request without slot id has read nothing and holds no gate entry.
C14_ErrorClassification ==
    \A c \in Clients :
        /\ resp[c].error \in NotFoundErrors \cup {"MissingSlotId"} =>
              resp[c].status \in 400..499
        /\ resp[c].error \in {"BookingFailed", "InvariantViolation"} =>
              resp[c].status \in 500..599
        /\ resp[c].error # "" => resp[c].status \notin 200..299
        /\ resp[c].error = "MissingSlotId" =>
              reads[c] = 0 /\ txs[c] = 0 /\ loc[c].slotId \notin bookingLocks

\* C15: a slot goes from busy to free, and a reservation disappears, only in
\* the step that applies a superseding transaction (one built after a prior
\* reservation was found); a reservation that disappears is replaced in the
\* same step by a new booked one of the same patient on the same schedule.
C15_AllowedTransitions ==
    [][   LET freed == {s \in DOMAIN slots :
                          /\ slots[s].status = "busy"
                          /\ s \notin DOMAIN slots' \/ slots'[s].status # "busy"}
              removed == appts \ appts'
              superseding(d) == /\ Commit(d)
                                /\ loc[d].oldAppointmentRef.type = "Appointment"
                                /\ loc[d].message = "updated"
          IN  /\ (freed # {} \/ removed # {}) => \E d \in Clients : superseding(d)
              /\ \A s \in freed :
                    /\ s \in DOMAIN slots' /\ slots'[s].status = "free"
                    /\ \E d \in Clients : superseding(d) /\ loc[d].oldSlotRef = Ref("Slot", s)
              /\ \A a \in removed :
                    /\ Booked(a)
                    /\ \E d \in Clients :
                          superseding(d) /\ loc[d].oldAppointmentRef = Ref("Appointment", a.id)
                    /\ \E r \in appts' \ appts :
                          /\ Booked(r)
                          /\ PatientOf(r) = PatientOf(a)
                          /\ r.supportingInformation = a.supportingInformation]_vars

\* C15's case: the second booking of a run superseded the first: the first
\* reservation is gone and only the new target slot is busy.
C15_Witness ==
    \E c \in Clients :
        /\ pc[c] = "done" /\ resp[c].status = 200 /\ resp[c].message = "updated"
        /\ nextId = 3 /\ Cardinality(appts) = 1
        /\ \A a \in appts : a.id = 2 /\ a.slot = Ref("Slot", Target(c))
        /\ \A s \in DOMAIN slots : slots[s].status = "busy" <=> s = Target(c)

\* C16: an attempt whose key the gate does not hold is never rejected with
\* Busy, whatever other keys the gate holds: it acquires its own entry next
\* to them (or ends 401 on a bad token); a step of the handler of one attempt,
\* or of the backend for it, leaves every other attempt where it is; and every
\* attempt in flight can be served or resumed next, whichever other attempts
\* are in flight.
C16_NoCrossSlotSerialization ==
    /\ [][\A c \in Clients :
            /\ (StartStep(c) /\ loc'[c].slotId # NoSlotId
                             /\ loc'[c].slotId \notin bookingLocks) =>
                  /\ resp'[c].status # 409
                  /\ \/ pc'[c] = "done" /\ resp'[c].status = 401
                                        /\ bookingLocks' = bookingLocks
                     \/ pc'[c] = "awaitSlot"
                           /\ bookingLocks' = bookingLocks \cup {loc'[c].slotId}
            /\ (alive' /\ (pc'[c] # pc[c] \/ answer'[c] # answer[c])) =>
                  \A d \in Clients \ {c} :
                      /\ pc'[d] = pc[d] /\ loc'[d] = loc[d] /\ resp'[d] = resp[d]
                      /\ answer'[d] = answer[d] /\ body'[d] = body[d]]_vars
    /\ [](\A c \in Clients :
            InFlight(c) => IF answer[c] = "" THEN ENABLED Serve(c) ELSE ENABLED Resume(c))

\* C16's case: the same patient has two attempts in flight on two slots of one
\* schedule, both gate entries are held and both attempts have been answered
\* by the backend.
C16_Witness ==
    \E c, d \in Clients :
        /\ InFlight(c) /\ InFlight(d)
        /\ Target(c) # Target(d)
        /\ {loc[c].slotId, loc[d].slotId} \subseteq bookingLocks
        /\ loc[c].personId = loc[d].personId
        /\ loc[c].scheduleRef = loc[d].scheduleRef /\ loc[c].scheduleRef # NoRef
        /\ reads[c] >= 2 /\ reads[d] >= 2

\* C17: as long as an attempt in flight is not resumed (its backend call has
\* not returned), no step of anything else removes its key from the gate or
\* touches the attempt, and every attempt arriving on that slot id is rejected
\* with Busy; the entry of an attempt in flight is always held.
C17_NoTimeout ==
    /\ [][\A c \in Clients :
            (InFlight(c) /\ pc'[c] = pc[c]) =>
                /\ loc[c].slotId \in bookingLocks'
                /\ loc'[c] = loc[c] /\ reads'[c] = reads[c] /\ txs'[c] = txs[c]
                /\ \A d \in Clients \ {c} :
                      (StartStep(d) /\ SlotText(loc'[d].slotId) = Target(c)) =>
                          pc'[d] = "done" /\ resp'[d] = ErrorResp(409, "Busy")]_vars
    /\ [](\A c \in Clients : InFlight(c) => loc[c].slotId \in bookingLocks)

\* C18: the operation list of a submitted transaction is, when a prior booked
\* reservation was found, the update of its slot to free, the delete of the
\* prior reservation, the create of the new reservation and the update of the
\* target slot to busy, in this order; and when none was found, the create
\* followed by the update of the target slot to busy.
C18_BundleOrder ==
    \A c \in Clients :
        pc[c] = "awaitTx" =>
            LET l == loc[c]
                e == l.entry
                IsCreate(x) == /\ x.method = "POST" /\ x.url = Ref("Appointment", "")
                               /\ x.resource.status = "booked"
                IsBusy(x) == /\ x.method = "PUT" /\ x.url = Ref("Slot", Target(c))
                             /\ x.resource.status = "busy"
            IN  IF l.oldAppointmentRef # NoRef
                THEN /\ Len(e) = 4
                     /\ e[1].method = "PUT" /\ e[1].url = l.oldSlotRef
                     /\ e[1].resource.status = "free"
                     /\ e[2].method = "DELETE" /\ e[2].url = l.oldAppointmentRef
                     /\ IsCreate(e[3])
                     /\ IsBusy(e[4])
                ELSE /\ Len(e) = 2
                     /\ IsCreate(e[1])
                     /\ IsBusy(e[2])

\* Position of a suspension point in the handler: the number of backend reads
\* issued when the handler is suspended there.
ChainPos(p) ==
    CASE p = "awaitSlot" -> 1
      [] p = "awaitSchedule" -> 2
      [] p = "awaitRole" -> 3
      [] p = "awaitPatient" -> 4
      [] p = "awaitExisting" -> 5
      [] p = "awaitOldSlot" -> 6
      [] OTHER -> 0

\* C19: the handler goes through slot, schedule, actor type check, role
\* binding, organization and patient in this order, one read per step; it moves
\* to a step only when the step before passed, and ends at the first step that
\* fails with the error of that step, with no further read, no conflict query
\* and no transaction.
C19_ResolutionOrder ==
    /\ [][\A c \in Clients :
            LET l == loc[c]
                e == resp'[c].error
                roles == {r \in PractitionerRoles : r.practitioner = l.actorRef}
                found == body[c].patients
            IN  /\ pc'[c] # pc[c] =>
                      /\ pc'[c] = "awaitSchedule" =>
                            pc[c] = "awaitSlot" /\ answer[c] = "ok"
                      /\ pc'[c] = "awaitRole" =>
                            /\ pc[c] = "awaitSchedule" /\ answer[c] = "ok"
                            /\ ScheduleActor[l.scheduleRef.id].type = "Practitioner"
                      /\ pc'[c] = "awaitPatient" =>
                            /\ pc[c] = "awaitRole" /\ answer[c] = "ok"
                            /\ \E r \in roles : r.organization # NoRef
                      /\ pc'[c] = "awaitExisting" =>
                            /\ pc[c] = "awaitPatient" /\ answer[c] = "ok"
                            /\ \E p \in found :
                                  /\ p \in patients
                                  /\ p.person = l.personId
                                  /\ p.organization = Ref("Organization", l.organizationId)
                                  /\ loc'[c].patientRef = Ref("Patient", p.id)
                      /\ pc'[c] = "awaitOldSlot" => pc[c] = "awaitExisting"
                      /\ pc'[c] = "awaitTx" => pc[c] \in {"awaitExisting", "awaitOldSlot"}
                /\ (FinishStep(c) /\ e \in ResolutionErrors) =>
                      /\ reads'[c] = reads[c] /\ reads[c] = ChainPos(pc[c])
                      /\ txs'[c] = 0 /\ backend' = backend
                      /\ e = "SlotNotFound" => pc[c] = "awaitSlot" /\ answer[c] = "notok"
                      /\ e = "ScheduleNotFound" =>
                            pc[c] = "awaitSchedule" /\ answer[c] = "notok"
                      /\ e = "UnsupportedActorType" =>
                            /\ pc[c] = "awaitSchedule" /\ answer[c] = "ok"
                            /\ ScheduleActor[l.scheduleRef.id].type # "Practitioner"
                      /\ e = "RoleNotFound" =>
                            pc[c] = "awaitRole" /\ answer[c] = "ok" /\ roles = {}
                      /\ e = "OrganizationMissing" =>
                            /\ pc[c] = "awaitRole" /\ answer[c] = "ok"
                            /\ \E r \in roles : r.organization = NoRef
                      /\ e = "PatientNotRegistered" =>
                            pc[c] = "awaitPatient" /\ answer[c] = "ok" /\ found = {}]_vars
    /\ [](\A c \in Clients :
            /\ (InFlight(c) /\ pc[c] # "awaitTx") => reads[c] = ChainPos(pc[c])
            /\ (pc[c] = "done" /\ resp[c].error \in ResolutionErrors) =>
                  reads[c] <= 4 /\ txs[c] = 0)

\* C19's case: one attempt ended at the actor type check, after two reads, and
\* another one at the organization of the role binding, after three.
C19_Witness ==
    \E c, d \in Clients :
        /\ pc[c] = "done" /\ resp[c].error = "UnsupportedActorType" /\ reads[c] = 2
        /\ pc[d] = "done" /\ resp[d].error = "OrganizationMissing" /\ reads[d] = 3

\* C20: every reservation a step creates is booked, bound to the target slot
\* of the creating attempt and to the schedule that slot references, has as its
\* two participants the resolved patient and the schedule's first actor, both
\* accepted, and has the start and end of the target slot as the attempt read
\* it; and so is every reservation in the backend.
C20_ReservationContent ==
    /\ [][\A a \in appts' \ appts :
            \E c \in Clients :
                LET l == loc[c]
                IN  /\ Commit(c)
                    /\ l.newSlot.id = Target(c)
                    /\ Booked(a)
                    /\ a.slot = Ref("Slot", Target(c))
                    /\ a.supportingInformation = l.newSlot.schedule
                    /\ Len(a.participant) = 2
                    /\ {a.participant[i] : i \in 1..2} =
                          {[actor |-> l.patientRef, status |-> "accepted"],
                           [actor |-> l.actorRef, status |-> "accepted"]}
                    /\ l.actorRef = ScheduleActor[l.newSlot.schedule.id]
                    /\ \E p \in patients, r \in PractitionerRoles :
                          /\ l.patientRef = Ref("Patient", p.id)
                          /\ p.person = l.personId
                          /\ r.practitioner = l.actorRef
                          /\ p.organization = r.organization
                    /\ a.start = l.newSlot.start /\ a.end = l.newSlot.end]_vars
    /\ [](\A a \in appts :
            /\ Booked(a)
            /\ a.slot.type = "Slot" /\ a.slot.id \in SlotIds
            /\ a.supportingInformation = Ref("Schedule", SlotSchedule[a.slot.id])
            /\ Len(a.participant) = 2
            /\ \E i, j \in 1..2 :
                  /\ i # j
                  /\ a.participant[i].actor.type = "Patient"
                  /\ a.participant[j].actor = ScheduleActor[SlotSchedule[a.slot.id]]
            /\ \A i \in 1..2 : a.participant[i].status = "accepted"
            /\ a.start = SlotStart[a.slot.id]
            /\ a.end = SlotStart[a.slot.id] + 1)

\* C20's case: reservations were created on slots of two schedules, of two
\* practitioners and organizations, the second of them requested with the
\* number 3 as its slot id.
C20_Witness ==
    /\ \E a \in appts : a.slot = Ref("Slot", "s2") /\ a.id = 1
    /\ \E a \in appts : a.slot = Ref("Slot", "3") /\ a.id = 2
    /\ \E c \in Clients :
          /\ pc[c] = "done" /\ resp[c].status = 200 /\ resp[c].appointmentId = 2
          /\ loc[c].slotId = JsonNumber("3")

\* The organization a slot's bookings belong to: the one of the role binding
\* of the first actor of the slot's schedule.
OrganizationsOfSlot(s) ==
    {r.organization : r \in {x \in PractitionerRoles :
                                 /\ SlotSchedule[s] \in ScheduleIds
                                 /\ x.practitioner = ScheduleActor[SlotSchedule[s]]}}

\* The patient identities of a person in the organization of a slot.
PatientsFor(pats, person, s) ==
    {q \in pats : q.person = person /\ q.organization \in OrganizationsOfSlot(s)}

\* C21: every reservation a step creates is held by a patient identity of the
\* calling person registered with the organization of the role binding of the
\* slot's schedule's actor; an attempt of a person with no patient identity in
\* that organization never gets as far as the conflict query or a transaction,
\* and no reservation in the backend is held by a patient of another organization.
C21_PatientOfOrganization ==
    /\ [][\A a \in appts' \ appts :
            \E c \in Clients :
                /\ Commit(c)
                /\ a.slot = Ref("Slot", Target(c))
                /\ \E q \in PatientsFor(patients, loc[c].personId, Target(c)) :
                      PatientOf(a) = Ref("Patient", q.id)]_vars
    /\ [](\A c \in Clients :
            (/\ InFlight(c)
             /\ Target(c) \in SlotIds
             /\ PatientsFor(patients, loc[c].personId, Target(c)) = {}) =>
                pc[c] \in {"awaitSlot", "awaitSchedule", "awaitRole", "awaitPatient"}
                /\ txs[c] = 0)
    /\ [](\A a \in appts :
            \E q \in patients :
                /\ PatientOf(a) = Ref("Patient", q.id)
                /\ q.organization \in OrganizationsOfSlot(a.slot.id))

\* C21's case: a person registered with another organization only was turned
\* away at the patient search for a slot; the person then registered with the
\* slot's organization, and holds a reservation on the slot as the patient
\* identity that registration created.
C21_Witness ==
    \E c \in Clients :
        /\ pc[c] = "done" /\ resp[c] = ErrorResp(404, "PatientNotRegistered")
        /\ Target(c) = "3" /\ started = 2
        /\ \E a \in appts :
              a.slot = Ref("Slot", "3") /\ PatientOf(a) = Ref("Patient", NewPatientId(1))

\* C22: the step that rejects an attempt with Busy leaves the gate as it
\* was, with the entry of the attempt in flight under that key still held, and
\* so does the delivery of that response; every attempt arriving while an
\* attempt holds the gate under its key is rejected with Busy.
C22_RejectionKeepsGate ==
    [][\A d \in Clients :
          /\ (StartStep(d) /\ resp'[d].status = 409) =>
                /\ bookingLocks' = bookingLocks
                /\ \E c \in Clients \ {d} :
                      /\ InFlight(c) /\ pc'[c] = pc[c]
                      /\ loc'[c].slotId = loc'[d].slotId
                      /\ loc'[c].slotId \in bookingLocks'
          /\ (pc[d] = "done" /\ pc'[d] = "idle") => bookingLocks' = bookingLocks
          /\ (/\ StartStep(d)
              /\ \E c \in Clients \ {d} : InFlight(c) /\ loc[c].slotId = loc'[d].slotId) =>
                resp'[d] = ErrorResp(409, "Busy")]_vars

\* C22's case: an attempt is in flight past its first read and holds the only
\* gate entry; since it set its key two requests on the same slot id have
\* arrived, and the second of them, the third attempt, was rejected as the
\* first was.
C22_Witness ==
    \E c, d \in Clients :
        /\ InFlight(c) /\ reads[c] = 2 /\ loc[c].slotId \in bookingLocks
        /\ bookingLocks = {loc[c].slotId}
        /\ rejected = 2
        /\ pc[d] = "done" /\ resp[d] = ErrorResp(409, "Busy")
        /\ loc[d].slotId = loc[c].slotId

\* The slot ids the bundle of an attempt writes.
SlotsWritten(l) ==
    {l.entry[i].url.id : i \in {j \in DOMAIN l.entry : l.entry[j].method = "PUT"}}

\* The handler of d is running, holds a copy of slot s that it read, and the
\* backend has not applied its bundle: the copy of the target slot (lines
\* 551-553), or the copy of the old slot, which the handler takes only from a
\* 2xx answer (line 618) and keeps in the PUT it pushes at lines 620-623.  A
\* bundle answered without being applied changes nothing of this.
HasReadSlot(d, s) ==
    /\ InFlight(d)
    /\ ~(pc[d] = "awaitTx" /\ TxApplied(answer[d]))
    /\ \/ loc[d].newSlot.id = s
       \/ /\ loc[d].oldSlotRef.id = s
          /\ \E i \in DOMAIN loc[d].entry :
                /\ loc[d].entry[i].method = "PUT"
                /\ loc[d].entry[i].url = loc[d].oldSlotRef
                /\ loc[d].entry[i].resource.status = "free"

\* C23: a step changes the status of a slot only as the transaction of an
\* attempt that holds the gate entry of that slot's id, and a transaction
\* writes no slot for which another attempt holds the gate entry or which
\* another attempt has read and not yet committed.
C23_SlotWrittenUnderGate ==
    [][/\ \A s \in DOMAIN slots :
            slots'[s].status # slots[s].status =>
                \E c \in Clients :
                    Commit(c) /\ Target(c) = s /\ loc[c].slotId \in bookingLocks
       /\ \A c \in Clients :
            Commit(c) =>
                \A s \in SlotsWritten(loc[c]) :
                    \A d \in Clients \ {c} :
                        ~(InFlight(d) /\ Target(d) = s) /\ ~HasReadSlot(d, s)]_vars

\* The booked reservations of patient p on schedule sch.
BookedOf(ap, p, sch) ==
    {a \in ap : Booked(a) /\ PatientOf(a) = p /\ a.supportingInformation = sch}

\* C24: the step applying the transaction of an attempt of patient P on
\* schedule Sch removes at most the reservation its conflict query returned,
\* a booked one of P on Sch, alters no reservation, and leaves the booked
\* reservations of every other (patient, schedule) pair as they were.
C24_OthersUntouched ==
    [][\A c \in Clients :
          LET l == loc[c]
          IN  Commit(c) =>
                /\ \A a \in appts \ appts' :
                      /\ Ref("Appointment", a.id) = l.oldAppointmentRef
                      /\ l.message = "updated"
                      /\ PatientOf(a) = l.patientRef
                      /\ a.supportingInformation = l.scheduleRef
                /\ \A a \in appts' \ appts :
                      /\ \A b \in appts : b.id # a.id
                      /\ PatientOf(a) = l.patientRef
                      /\ a.supportingInformation = l.scheduleRef
                /\ \A a \in appts, b \in appts' : a.id = b.id => a = b
                /\ \A a \in appts \cup appts' :
                      LET p == PatientOf(a)
                          sch == a.supportingInformation
                      IN  (p # l.patientRef \/ sch # l.scheduleRef) =>
                              BookedOf(appts', p, sch) = BookedOf(appts, p, sch)]_vars

\* C24's case: the backend has applied a patient's transaction on a schedule
\* on which another patient holds an older reservation, and both reservations
\* are there.
C24_Witness ==
    \E c \in Clients :
        /\ pc[c] = "awaitTx" /\ answer[c] = "ok"
        /\ \E new, other \in appts :
              /\ new.id = RefId(Find201(body[c].results))
              /\ PatientOf(new) = loc[c].patientRef
              /\ other.id < new.id
              /\ PatientOf(other) # PatientOf(new)
              /\ other.supportingInformation = new.supportingInformation

\* C25: when the conflict query is not answered with a result set, the
\* handler's next step ends the attempt with a server error and submits no
\* transaction.
C25_ConflictQueryFailure ==
    [][\A c \in Clients :
          (pc[c] = "awaitExisting" /\ pc'[c] # pc[c] /\ answer[c] # "ok" /\ alive') =>
              /\ pc'[c] = "done"
              /\ resp'[c].status \in 500..599
              /\ txs'[c] = 0]_vars

\* The (patient, schedule, slot) bookings of the backend.
Bookings(ap) ==
    {<<PatientOf(a), a.supportingInformation, a.slot>> : a \in {b \in ap : Booked(b)}}

\* C26: when the patient's one booked reservation on the schedule is bound to
\* the target slot and the attempt's transaction replaces that reservation,
\* the transaction leaves the target slot busy, every other slot and the set of
\* (patient, schedule, slot) bookings as they were, and the patient's one
\* booked reservation is a new one, equal to the old one but for its
\* identifier; with the target slot busy before, every slot status is as before.
C26_RebookIdempotent ==
    [][\A c \in Clients :
          LET l == loc[c]
              held == SearchAppointments(appts, l.patientRef, l.scheduleRef)
          IN  (/\ Commit(c)
               /\ Cardinality(held) = 1
               /\ \A r \in held : /\ r.slot = Ref("Slot", Target(c))
                                   /\ l.oldAppointmentRef = Ref("Appointment", r.id)) =>
                  /\ slots'[Target(c)].status = "busy"
                  /\ \A s \in DOMAIN slots \ {Target(c)} : slots'[s] = slots[s]
                  /\ slots[Target(c)].status = "busy" =>
                        \A s \in DOMAIN slots : slots'[s].status = slots[s].status
                  /\ DOMAIN slots' = DOMAIN slots
                  /\ Bookings(appts') = Bookings(appts)
                  /\ \A r \in held :
                        /\ r \notin appts'
                        /\ \E r2 \in appts' :
                              /\ \A a \in appts : a.id # r2.id
                              /\ r2 = [r EXCEPT !.id = r2.id]
                              /\ SearchAppointments(appts', l.patientRef, l.scheduleRef) = {r2}
                              /\ appts' \ {r2} = appts \ {r}]_vars

\* C26's case: the backend has applied the second booking of a run, which
\* re-booked the slot of the first: the attempt found reservation 1 bound to
\* its own target slot, and reservation 2 is now the only one, on that slot,
\* the only busy one.
C26_Witness ==
    \E c \in Clients :
        /\ pc[c] = "awaitTx" /\ answer[c] = "ok" /\ loc[c].message = "updated"
        /\ loc[c].oldAppointmentRef = Ref("Appointment", 1)
        /\ loc[c].oldSlotRef = Ref("Slot", Target(c))
        /\ Len(loc[c].entry) = 4
        /\ nextId = 3
        /\ appts # {}
        /\ \A a \in appts : a.id = 2 /\ a.slot = Ref("Slot", Target(c))
        /\ \A s \in DOMAIN slots : slots[s].status = "busy" <=> s = Target(c)

====
